---- MODULE Spec2Model ----
(***************************************************************************)
(* The Poisson adaptive-mesh-refinement notebook (src/unnamed/part_000)    *)
(* as a state machine.  The notebook is executed top to bottom; pc names   *)
(* the next step to run.  The finite-element library is external: a mesh   *)
(* is a strip of num_cells triangles (cell c has the edges 2c, 2c+1, 2c+2, *)
(* edge 2c+2 being shared with cell c+1), refinement bisects the marked    *)
(* edges, and a solve returns one of a small family of discrete fields: a  *)
(* piecewise-linear function whose normal derivative jumps by jmp across   *)
(* one interior edge.  Residuals are integers in units of 0.005, weights   *)
(* of the residual form (cell areas, edge lengths) are taken as 1.         *)
(* SpecBC steps through the set-up of the Dirichlet conditions of the      *)
(* three notebooks (part_000, Stokes/channel_flow.ipynb, part_002) on      *)
(* uniform rectangle meshes; SpecMPI runs the adaptive loop on several     *)
(* processes.                                                              *)
(***************************************************************************)
EXTENDS Integers, Sequences, FiniteSets, TLC

\* ---------------------------------------------------------------- bounds
MaxCells == 41      \* no mesh of the model has more cells
MaxJump == 2        \* normal-derivative jumps of a solution lie in -MaxJump..MaxJump
MaxSpot == 2        \* places 0..MaxSpot where the jump of a solution sits
MaxClosure == 0     \* extra cells the closure of a refinement may add
MinRes == 2         \* a rectangle has MinRes..MaxRes cells per unit length
MaxRes == 3
MaxSeed == 3        \* seeds 0..MaxSeed of the values a vector starts from
NumRanks == 2       \* processes of a distributed run
MaxRounds == 2      \* iterations a process of a distributed run may start

\* ------------------------------------------------------ program constants
NX == 4             \* create_rectangle n=(4, 2)
NY == 2
FracNum == 5        \* 0.05 = FracNum / FracDen
FracDen == 100
Threshold == 10     \* 5e-2, in units of 0.005
InitResidual == 200 \* tot_residual = 1, in units of 0.005
FPeak == 2          \* the source term on the cell that holds its peak
L == 4              \* the length of the Stokes channel
SolverUnavailable == 92 \* the PETSc error code the Stokes notebook catches

VARIABLES pc, msh, f, uh, DG, num_cells, num_cells_to_refine, cell_area,
          residual, array_cell_res, tot_residual, cell_ord_by_res,
          marked_cells, edges, iteration,
          writer,     \* the VTKFile of the loop: its path and how many were opened
          written,    \* the snapshots written through it, in order
          stdout,     \* the lines printed, in order
          raised,     \* the exception that ended the run, or "None"
          nb,         \* boundary conditions: the notebook whose conditions are set up
          grid,       \* its mesh and function space
          seed,       \* selects the values a vector holds before conditions are set
          bc_pc,      \* the next step of the set-up
          facets,     \* the boundary facets located last
          dofs,       \* the degrees of freedom located last
          bcs,        \* the Dirichlet conditions built so far
          ds_facets,  \* the facets the boundary integral of the linear form covers
          vec,        \* the right-hand side or solution vector
          petsc,      \* the Stokes solve: its error code and what followed
          rank_pc,    \* distributed run: where each process is in the loop
          rank_res,   \* distributed run: each process's tot_residual
          rank_iter   \* distributed run: each process's iteration

\* the output side of the notebook
out == <<writer, written, stdout, raised>>

\* the adaptive notebook run by one process
amr == <<pc, msh, f, uh, DG, num_cells, num_cells_to_refine, cell_area,
         residual, array_cell_res, tot_residual, cell_ord_by_res,
         marked_cells, edges, iteration, out>>

\* the set-up of boundary conditions on a rectangle
bcv == <<nb, grid, seed, bc_pc, facets, dofs, bcs, ds_facets, vec, petsc>>

\* the adaptive loop run by several processes
mpiv == <<rank_pc, rank_res, rank_iter>>

vars == <<amr, bcv, mpiv>>

\* ------------------------------------------------------------------ mesh
\* mesh.create_rectangle(points, n=(NX, NY), triangle): two triangles per square
create_rectangle == [gen |-> 0, num_cells |-> 2 * NX * NY]

Cells(m) == 0 .. (m.num_cells - 1)

\* c_to_e.links(cell): the three edges of a cell
Links(m, cell) == <<2 * cell, 2 * cell + 1, 2 * cell + 2>>

\* an interior facet (dS) is an edge two cells share
IsInteriorEdge(n, e) == e % 2 = 0 /\ e >= 2 /\ e <= 2 * n - 2

SeqRange(s) == {s[i] : i \in DOMAIN s}

\* cells after bisecting the edges of edgeSeq: a cell with j split edges
\* becomes j + 1 cells
SplitCellCountPerEntry(m, edgeSeq) ==
    m.num_cells
    + Cardinality({p \in Cells(m) \X (1..3) \X DOMAIN edgeSeq :
                      Links(m, p[1])[p[2]] = edgeSeq[p[3]]})
SplitCellCount(m, edgeSeq) ==
    m.num_cells
    + Cardinality({p \in Cells(m) \X (1..3) : Links(m, p[1])[p[2]] \in SeqRange(edgeSeq)})

\* mesh.refine(msh, np.array(edges))[0]: a new mesh generation; closure is the
\* number of cells the closure of the refinement adds beyond the split edges
refine(m, edgeSeq, closure) ==
    [gen |-> m.gen + 1,
     num_cells |-> IF edgeSeq = <<>> THEN m.num_cells
                   ELSE SplitCellCount(m, edgeSeq) + closure]

\* ------------------------------------------------------- fields and forms
\* f = 40 * exp(...) over x = SpatialCoordinate(msh)
SourceTermStale(m) == f
SourceTerm(m) == [gen |-> m.gen]

\* what problem.solve() may return on mesh m
Fields(m) == [gen : {m.gen}, jmp : -MaxJump..MaxJump, at : 0..MaxSpot]

\* uh, V = solve_poisson_homog_dirichlet(msh, f, bc_marker)
solve_poisson_homog_dirichlet(m, field) == field

\* fem.functionspace(msh, ("DG", 0)): one dof per cell
functionspace_DG(m) == [gen |-> m.gen, size |-> m.num_cells]

\* Function(DG, assemble_vector(w * dx)): the area of each cell
assemble_cell_area(space) == [gen |-> space.gen, size |-> space.size]

\* the cell on which the Gaussian source has its peak
BumpCell(n) == (3 * n) \div 4

\* the source term on cell c of a mesh of n cells
FVal(n, c) == IF c = BumpCell(n) THEN FPeak ELSE 0

\* the cell left of the interior edge that carries the jump of field u
JumpCell(n, u) ==
    CASE u.at = 0 -> 0
      [] u.at = 1 -> n \div 2
      [] OTHER -> BumpCell(n) - 1

\* jump(grad(uh), n) on edge e
JumpAt(n, u, e) == IF e = 2 * JumpCell(n, u) + 2 THEN u.jmp ELSE 0

\* div(grad(uh)) on cell c: V is Lagrange 1, so uh is linear on every cell
DivGradQuadratic(u, c) == 1
DivGrad(u, c) == 0

SquareDropped(x) == x
Square(x) == x * x

\* fem.form(2*cell_area*w*(div(grad(uh)) +- f)**2*dx
\*          + sqrt(2)*avg(cell_area**(1/2))*avg(w)*jump(grad(uh),n)**2*dS)
ResidualForm(sign) ==
    [uh |-> uh, f |-> f, area |-> cell_area, w |-> DG, n |-> msh.gen, sign |-> sign]

\* the facet term of edge e, which both cells of an interior edge receive
FacetTerm(form, e) ==
    IF IsInteriorEdge(form.w.size, e)
    THEN Square(JumpAt(form.w.size, form.uh, e))
    ELSE 0

\* the entry of cell c in assemble_vector(residual)
CellIndicator(form, c) ==
    2 * Square(DivGrad(form.uh, c) + form.sign * FVal(form.w.size, c))
    + FacetTerm(form, 2 * c) + FacetTerm(form, 2 * c + 2)

\* fem.assemble_vector(residual).array
assemble_vector(form) == [c \in 0 .. (form.w.size - 1) |-> CellIndicator(form, c)]

\* np.sum(array)
RECURSIVE SumUpTo(_, _)
SumUpTo(arr, k) == IF k < 0 THEN 0 ELSE arr[k] + SumUpTo(arr, k - 1)
np_sum(arr) == SumUpTo(arr, Cardinality(DOMAIN arr) - 1)

\* ---------------------------------------------------------------- ranking
\* enumerate(array): the pairs <<idx, value>> in index order
Enumerate(arr) == [i \in 1 .. Cardinality(DOMAIN arr) |-> <<i - 1, arr[i - 1]>>]

Reverse(s) == [i \in 1 .. Len(s) |-> s[Len(s) + 1 - i]]

\* key=lambda x: x[-1]
Key(x) == x[2]

\* one step of a stable ascending sort: x goes into the sorted s after the
\* items with key <= its key
InsertStable(x, s) ==
    LET p == Cardinality({i \in DOMAIN s : Key(s[i]) <= Key(x)})
    IN  SubSeq(s, 1, p) \o <<x>> \o SubSeq(s, p + 1, Len(s))

RECURSIVE SortFirst(_, _)
SortFirst(items, k) ==
    IF k = 0 THEN <<>> ELSE InsertStable(items[k], SortFirst(items, k - 1))

\* list.sort(): stable, ascending by key
StableSort(items) == SortFirst(items, Len(items))

\* sorted(items, key=..., reverse=True): reverse, sort stably, reverse back
SortedPlainReverse(items) == Reverse(StableSort(items))
SortedReverse(items) == Reverse(StableSort(Reverse(items)))

\* [idx for idx, value in sorted(enumerate(array_cell_res), ..., reverse=True)]
RankCells(arr) ==
    LET ranked == SortedReverse(Enumerate(arr))
    IN  [i \in 1 .. Len(ranked) |-> ranked[i][1]]

\* int(np.ceil(0.05 * num_cells))
FloorFraction(n) == (FracNum * n) \div FracDen
RoundFraction(n) == (2 * FracNum * n + FracDen) \div (2 * FracDen)
CeilFraction(n) == (FracNum * n + FracDen - 1) \div FracDen

Min(a, b) == IF a < b THEN a ELSE b

\* cell_ord_by_res[0:num_cells_to_refine]
SliceHeadInclusive(ord, k) == SubSeq(ord, 1, Min(k + 1, Len(ord)))
SliceTail(ord, k) == SubSeq(ord, Len(ord) - Min(k, Len(ord)) + 1, Len(ord))
SliceHead(ord, k) == SubSeq(ord, 1, Min(k, Len(ord)))

\* edges = []; for cell in marked_cells: for e in c_to_e.links(cell): edges.append(e)
RECURSIVE CollectEdgesDedup(_, _)
CollectEdgesDedup(m, marked) ==
    IF marked = <<>> THEN <<>>
    ELSE LET before == CollectEdgesDedup(m, SubSeq(marked, 1, Len(marked) - 1))
             new == SelectSeq(Links(m, marked[Len(marked)]),
                              LAMBDA e : e \notin SeqRange(before))
         IN  before \o new
RECURSIVE CollectEdges(_, _)
CollectEdges(m, marked) ==
    IF marked = <<>> THEN <<>>
    ELSE Links(m, Head(marked)) \o CollectEdges(m, Tail(marked))

\* ------------------------------------------------------------------ state
NoSpace == [gen |-> -1, size |-> 0]
NoForm == [uh |-> [gen |-> -1, jmp |-> 0, at |-> 0], f |-> [gen |-> -1],
           area |-> NoSpace, w |-> NoSpace, n |-> -1, sign |-> 1]

\* ksp.solve has not been called
NoRun == [ierr |-> -1, printed |-> <<>>, status |-> -1, raised |-> 0,
          exit_now |-> FALSE, split |-> FALSE, plots |-> 0]

\* no boundary-condition set-up and no distributed run is in progress
BcIdle ==
    /\ nb = "none"
    /\ grid = [w |-> 0, res |-> 0, deg |-> 0]
    /\ seed = 0
    /\ bc_pc = "off"
    /\ facets = {}
    /\ dofs = {}
    /\ bcs = <<>>
    /\ ds_facets = {}
    /\ vec = <<>>
    /\ petsc = NoRun

MpiIdle ==
    /\ rank_pc = <<>>
    /\ rank_res = <<>>
    /\ rank_iter = <<>>

NoWriter == [path |-> "", opened |-> 0]

\* lines 187-198: the mesh, the source term and the first solve
InitAmr ==
    /\ pc = "space"
    /\ msh = create_rectangle
    /\ f = [gen |-> 0]
    /\ uh \in Fields(create_rectangle)
    /\ DG = NoSpace
    /\ num_cells = 0
    /\ num_cells_to_refine = 0
    /\ cell_area = NoSpace
    /\ residual = NoForm
    /\ array_cell_res = <<>>
    /\ tot_residual = 0
    /\ cell_ord_by_res = <<>>
    /\ marked_cells = <<>>
    /\ edges = <<>>
    /\ iteration = 0
    /\ writer = NoWriter
    /\ written = <<>>
    /\ stdout = <<>>
    /\ raised = "None"

Init ==
    /\ InitAmr
    /\ BcIdle
    /\ MpiIdle

\* lines 243-246
SetupSpace ==
    /\ pc = "space"
    /\ DG' = functionspace_DG(msh)
    /\ num_cells' = msh.num_cells
    /\ num_cells_to_refine' = CeilFraction(msh.num_cells)
    /\ pc' = "area"
    /\ UNCHANGED <<msh, f, uh, cell_area, residual, array_cell_res, tot_residual,
                   cell_ord_by_res, marked_cells, edges, iteration>>
    /\ UNCHANGED out
    /\ UNCHANGED <<bcv, mpiv>>

\* lines 274-277
AssembleArea ==
    /\ pc = "area"
    /\ cell_area' = assemble_cell_area(DG)
    /\ pc' = "form"
    /\ UNCHANGED <<msh, f, uh, DG, num_cells, num_cells_to_refine, residual,
                   array_cell_res, tot_residual, cell_ord_by_res, marked_cells,
                   edges, iteration>>
    /\ UNCHANGED out
    /\ UNCHANGED <<bcv, mpiv>>

\* line 295: the stand-alone form has div(grad(uh)) - f
DefineResidual ==
    /\ pc = "form"
    /\ residual' = ResidualForm(-1)
    /\ pc' = "estimate"
    /\ UNCHANGED <<msh, f, uh, DG, num_cells, num_cells_to_refine, cell_area,
                   array_cell_res, tot_residual, cell_ord_by_res, marked_cells,
                   edges, iteration>>
    /\ UNCHANGED out
    /\ UNCHANGED <<bcv, mpiv>>

\* lines 316-320
Estimate ==
    /\ pc = "estimate"
    /\ array_cell_res' = assemble_vector(residual)
    /\ tot_residual' = np_sum(array_cell_res')
    /\ cell_ord_by_res' = RankCells(array_cell_res')
    /\ marked_cells' = SliceHead(cell_ord_by_res', num_cells_to_refine)
    /\ pc' = "refine"
    /\ UNCHANGED <<msh, f, uh, DG, num_cells, num_cells_to_refine, cell_area,
                   residual, edges, iteration>>
    /\ UNCHANGED out
    /\ UNCHANGED <<bcv, mpiv>>

\* lines 343-353
MarkRefineDiscarded ==
    /\ pc = "refine"
    /\ edges' = CollectEdges(msh, marked_cells)
    /\ f' = SourceTerm(msh)
    /\ pc' = "resolve"
    /\ UNCHANGED <<msh, uh, DG, num_cells, num_cells_to_refine, cell_area, residual,
                   array_cell_res, tot_residual, cell_ord_by_res, marked_cells,
                   iteration>>
    /\ UNCHANGED out
    /\ UNCHANGED <<bcv, mpiv>>
MarkRefine ==
    /\ pc = "refine"
    /\ edges' = CollectEdges(msh, marked_cells)
    /\ \E closure \in 0 .. MaxClosure :
          /\ msh' = refine(msh, edges', closure)
          /\ msh'.num_cells <= MaxCells
    /\ f' = SourceTerm(msh')
    /\ pc' = "resolve"
    /\ UNCHANGED <<uh, DG, num_cells, num_cells_to_refine, cell_area, residual,
                   array_cell_res, tot_residual, cell_ord_by_res, marked_cells,
                   iteration>>
    /\ UNCHANGED out
    /\ UNCHANGED <<bcv, mpiv>>

\* line 387
Resolve ==
    /\ pc = "resolve"
    /\ \E field \in Fields(msh) : uh' = solve_poisson_homog_dirichlet(msh, field)
    /\ pc' = "loop_init"
    /\ UNCHANGED <<msh, f, DG, num_cells, num_cells_to_refine, cell_area, residual,
                   array_cell_res, tot_residual, cell_ord_by_res, marked_cells,
                   edges, iteration>>
    /\ UNCHANGED out
    /\ UNCHANGED <<bcv, mpiv>>

\* io.VTKFile(msh.comm, "out_poisson/poisson", "w")
VTKFile(before) == [path |-> "out_poisson/poisson", opened |-> before.opened + 1]

\* lines 520-522
LoopInitFromOne ==
    /\ pc = "loop_init"
    /\ tot_residual' = InitResidual
    /\ iteration' = 1
    /\ writer' = VTKFile(writer)
    /\ pc' = "while"
    /\ UNCHANGED <<written, stdout, raised>>
    /\ UNCHANGED <<msh, f, uh, DG, num_cells, num_cells_to_refine, cell_area,
                   residual, array_cell_res, cell_ord_by_res, marked_cells, edges>>
    /\ UNCHANGED <<bcv, mpiv>>
LoopInitKeepResidual ==
    /\ pc = "loop_init"
    /\ iteration' = 0
    /\ writer' = VTKFile(writer)
    /\ pc' = "while"
    /\ UNCHANGED <<written, stdout, raised>>
    /\ UNCHANGED <<msh, f, uh, DG, num_cells, num_cells_to_refine, cell_area,
                   residual, array_cell_res, tot_residual, cell_ord_by_res,
                   marked_cells, edges>>
    /\ UNCHANGED <<bcv, mpiv>>
LoopInit ==
    /\ pc = "loop_init"
    /\ tot_residual' = InitResidual
    /\ iteration' = 0
    /\ writer' = VTKFile(writer)
    /\ pc' = "while"
    /\ UNCHANGED <<written, stdout, raised>>
    /\ UNCHANGED <<msh, f, uh, DG, num_cells, num_cells_to_refine, cell_area,
                   residual, array_cell_res, cell_ord_by_res, marked_cells, edges>>
    /\ UNCHANGED <<bcv, mpiv>>

\* while tot_residual > 5e-2
ContinuesInclusive(total) == total >= Threshold
Continues(total) == total > Threshold

\* line 524: the loop test
LoopTest ==
    /\ pc = "while"
    /\ pc' = IF Continues(tot_residual) THEN "loop_estimate" ELSE "done"
    /\ UNCHANGED <<msh, f, uh, DG, num_cells, num_cells_to_refine, cell_area,
                   residual, array_cell_res, tot_residual, cell_ord_by_res,
                   marked_cells, edges, iteration>>
    /\ UNCHANGED out
    /\ UNCHANGED <<bcv, mpiv>>

\* lines 525-541: the loop's form has div(grad(uh)) + f
LoopEstimate ==
    /\ pc = "loop_estimate"
    /\ DG' = functionspace_DG(msh)
    /\ num_cells' = msh.num_cells
    /\ cell_area' = assemble_cell_area(DG')
    /\ residual' = [uh |-> uh, f |-> f, area |-> cell_area', w |-> DG',
                    n |-> msh.gen, sign |-> 1]
    /\ array_cell_res' = assemble_vector(residual')
    /\ tot_residual' = np_sum(array_cell_res')
    /\ cell_ord_by_res' = RankCells(array_cell_res')
    /\ num_cells_to_refine' = CeilFraction(num_cells')
    /\ marked_cells' = SliceHead(cell_ord_by_res', num_cells_to_refine')
    /\ pc' = "loop_refine"
    /\ UNCHANGED <<msh, f, uh, edges, iteration>>
    /\ UNCHANGED out
    /\ UNCHANGED <<bcv, mpiv>>

\* lines 543-553
LoopRefineDiscarded ==
    /\ pc = "loop_refine"
    /\ edges' = CollectEdges(msh, marked_cells)
    /\ f' = SourceTerm(msh)
    /\ pc' = "loop_solve"
    /\ UNCHANGED <<msh, uh, DG, num_cells, num_cells_to_refine, cell_area, residual,
                   array_cell_res, tot_residual, cell_ord_by_res, marked_cells,
                   iteration>>
    /\ UNCHANGED out
    /\ UNCHANGED <<bcv, mpiv>>
LoopRefine ==
    /\ pc = "loop_refine"
    /\ edges' = CollectEdges(msh, marked_cells)
    /\ \E closure \in 0 .. MaxClosure :
          /\ msh' = refine(msh, edges', closure)
          /\ msh'.num_cells <= MaxCells
    /\ f' = SourceTerm(msh')
    /\ pc' = "loop_solve"
    /\ UNCHANGED <<uh, DG, num_cells, num_cells_to_refine, cell_area, residual,
                   array_cell_res, tot_residual, cell_ord_by_res, marked_cells,
                   iteration>>
    /\ UNCHANGED out
    /\ UNCHANGED <<bcv, mpiv>>

\* print(f"Iteration: {iteration}, residual: {tot_residual}")
LogLineBeforeIncrement(it, res) == <<it - 1, res>>
LogLine(it, res) == <<it, res>>

\* writer.write_function(uh, iteration): one snapshot of u, tagged with time t
write_function_untagged(w, u, t) == [time |-> 0, gen |-> u.gen, file |-> w.path, writer |-> w.opened]
write_function(w, u, t) == [time |-> t, gen |-> u.gen, file |-> w.path, writer |-> w.opened]

\* lines 554-558
LoopSolveWriteFirst ==
    /\ pc = "loop_solve"
    /\ \E field \in Fields(msh) : uh' = solve_poisson_homog_dirichlet(msh, field)
    /\ iteration' = iteration + 1
    /\ stdout' = Append(stdout, LogLine(iteration', tot_residual))
    /\ written' = Append(written, write_function(writer, uh, iteration'))
    /\ pc' = "while"
    /\ UNCHANGED <<writer, raised>>
    /\ UNCHANGED <<msh, f, DG, num_cells, num_cells_to_refine, cell_area, residual,
                   array_cell_res, tot_residual, cell_ord_by_res, marked_cells,
                   edges>>
    /\ UNCHANGED <<bcv, mpiv>>
LoopSolve ==
    /\ pc = "loop_solve"
    /\ \E field \in Fields(msh) : uh' = solve_poisson_homog_dirichlet(msh, field)
    /\ iteration' = iteration + 1
    /\ stdout' = Append(stdout, LogLine(iteration', tot_residual))
    /\ written' = Append(written, write_function(writer, uh', iteration'))
    /\ pc' = "while"
    /\ UNCHANGED <<writer, raised>>
    /\ UNCHANGED <<msh, f, DG, num_cells, num_cells_to_refine, cell_area, residual,
                   array_cell_res, tot_residual, cell_ord_by_res, marked_cells,
                   edges>>
    /\ UNCHANGED <<bcv, mpiv>>

\* line 537 raises: nothing catches it, the cell ends at once
FailEstimate ==
    /\ pc = "loop_estimate"
    /\ DG' = functionspace_DG(msh)
    /\ num_cells' = msh.num_cells
    /\ cell_area' = assemble_cell_area(DG')
    /\ residual' = [uh |-> uh, f |-> f, area |-> cell_area', w |-> DG',
                    n |-> msh.gen, sign |-> 1]
    /\ raised' = "AssemblyError"
    /\ pc' = "aborted"
    /\ UNCHANGED <<msh, f, uh, num_cells_to_refine, array_cell_res, tot_residual,
                   cell_ord_by_res, marked_cells, edges, iteration, writer, written,
                   stdout>>
    /\ UNCHANGED <<bcv, mpiv>>

\* line 551 raises
FailRefine ==
    /\ pc = "loop_refine"
    /\ edges' = CollectEdges(msh, marked_cells)
    /\ raised' = "RefinementError"
    /\ pc' = "aborted"
    /\ UNCHANGED <<msh, f, uh, DG, num_cells, num_cells_to_refine, cell_area,
                   residual, array_cell_res, tot_residual, cell_ord_by_res,
                   marked_cells, iteration, writer, written, stdout>>
    /\ UNCHANGED <<bcv, mpiv>>

\* line 554 raises
FailSolveCaught ==
    /\ pc = "loop_solve"
    /\ raised' = "SolveError"
    /\ iteration' = iteration + 1
    /\ stdout' = Append(stdout, LogLine(iteration', tot_residual))
    /\ written' = Append(written, write_function(writer, uh, iteration'))
    /\ pc' = "while"
    /\ UNCHANGED <<msh, f, uh, DG, num_cells, num_cells_to_refine, cell_area,
                   residual, array_cell_res, tot_residual, cell_ord_by_res,
                   marked_cells, edges, writer>>
    /\ UNCHANGED <<bcv, mpiv>>
FailSolve ==
    /\ pc = "loop_solve"
    /\ raised' = "SolveError"
    /\ pc' = "aborted"
    /\ UNCHANGED <<msh, f, uh, DG, num_cells, num_cells_to_refine, cell_area,
                   residual, array_cell_res, tot_residual, cell_ord_by_res,
                   marked_cells, edges, iteration, writer, written, stdout>>
    /\ UNCHANGED <<bcv, mpiv>>

Next ==
    \/ SetupSpace
    \/ AssembleArea
    \/ DefineResidual
    \/ Estimate
    \/ MarkRefine
    \/ Resolve
    \/ LoopInit
    \/ LoopTest
    \/ LoopEstimate
    \/ LoopRefine
    \/ LoopSolve
    \/ FailEstimate
    \/ FailRefine
    \/ FailSolve

Spec == Init /\ [][Next]_vars

\* ------------------------------------------- boundary conditions: geometry
\* A rectangle [0,w] x [0,1] meshed with res cells per unit length.  A point
\* is a pair of indices in units of half a cell: the vertices have two even
\* indices, the other points are the midpoints of the edges.
rectangle(w, res) == [w |-> w, res |-> res, deg |-> 0]

\* a Lagrange space of degree deg on the mesh
functionspace(m, deg) == [w |-> m.w, res |-> m.res, deg |-> deg]

Den(g) == 2 * g.res
Right(g) == g.w * Den(g)
Top(g) == Den(g)
Points(g) == (0..Right(g)) \X (0..Top(g))
Vertices(g) == {p \in Points(g) : p[1] % 2 = 0 /\ p[2] % 2 = 0}

\* degree 1 has a dof at every vertex, degree 2 also at every edge midpoint
DofPoints(g) == IF g.deg = 2 THEN Points(g) ELSE Vertices(g)

OnBoundary(g, p) == p[1] \in {0, Right(g)} \/ p[2] \in {0, Top(g)}

\* the exterior facets: the cell edges that lie on a side
BoundaryFacets(g) ==
    {<<<<i, j>>, <<i + 2, j>>>> :
        i \in {k \in 0..(Right(g) - 2) : k % 2 = 0}, j \in {0, Top(g)}}
    \cup
    {<<<<i, j>>, <<i, j + 2>>>> :
        i \in {0, Right(g)}, j \in {k \in 0..(Top(g) - 2) : k % 2 = 0}}

Midpoint(fc) == <<(fc[1][1] + fc[2][1]) \div 2, (fc[1][2] + fc[2][2]) \div 2>>

\* np.isclose(x, c) for a coordinate given by its index
isclose(g, index, c) == index = c * Den(g)

\* a boundary facet is located when the marker holds at all its vertices;
\* marked is the set of the points at which it holds
locate_entities_boundary(g, marked) ==
    {fc \in BoundaryFacets(g) : fc[1] \in marked /\ fc[2] \in marked}

\* the dofs that sit on the given facets
locate_dofs_topological(g, fs) ==
    {fc[1] : fc \in fs} \cup {fc[2] : fc \in fs}
    \cup (IF g.deg = 2 THEN {Midpoint(fc) : fc \in fs} ELSE {})

\* src/unnamed/part_000, line 193
bc_marker_open_top(g, p) ==
    isclose(g, p[1], 0) \/ isclose(g, p[1], 2) \/ isclose(g, p[2], 0)
bc_marker(g, p) ==
    \/ isclose(g, p[1], 0) \/ isclose(g, p[1], 2)
    \/ isclose(g, p[2], 0) \/ isclose(g, p[2], 1)

\* src/Stokes/channel_flow.ipynb, lines 128-133
noslip_boundary(g, p) == isclose(g, p[2], 0) \/ isclose(g, p[2], 1)

inflow_both_ends(g, p) == isclose(g, p[1], 0) \/ isclose(g, p[1], L)
inflow(g, p) == isclose(g, p[1], 0)

\* lines 138-139: the velocity 1/2 along x1, in units of 1 / Den^2
inflow_velocity_expression(g, p) == <<(Den(g) * Den(g)) \div 2, 0>>

\* src/unnamed/part_002, line 155
demo_marker(g, p) ==
    \/ isclose(g, p[1], 0) \/ isclose(g, p[1], 1)
    \/ isclose(g, p[2], 0) \/ isclose(g, p[2], 1)

\* --------------------------------------------- boundary conditions: values
\* what the assembly leaves in a vector before conditions are set: never 0
Pre(s, p) == ((s + p[1] + 2 * p[2]) % 3) + 1
PreVector(s, p) == <<Pre(s, p), Pre(s + 1, p)>>

Constant(g, c) == [p \in DofPoints(g) |-> c]
\* expr holds the value of the expression at every point
interpolate(g, expr) == [p \in DofPoints(g) |-> expr[p]]
dirichletbc(value, ds) == [value |-> value, dofs |-> ds]

\* bc.set(b): the prescribed value at the dofs of bc, b elsewhere
bc_set(bc, b) ==
    [p \in DOMAIN b |-> IF p \in bc.dofs THEN bc.value[p] ELSE b[p]]

\* for bc in bcs: bc.set(b), from the k-th condition on
RECURSIVE set_bcs(_, _, _)
set_bcs(bs, b, k) ==
    IF k > Len(bs) THEN b ELSE set_bcs(bs, bc_set(bs[k], b), k + 1)

\* LinearProblem.solve: the rows of the constrained dofs are identity rows,
\* so there the solution is the right-hand side after the conditions were set
LinearProblem_solve(g, bs, s) ==
    set_bcs(bs, [p \in DofPoints(g) |-> Pre(s + 1, p)], 1)

\* ---------------------------------------------- boundary conditions: steps
\* the mesh of one of the three notebooks, before its function space exists
InitBC ==
    /\ InitAmr
    /\ uh = [gen |-> 0, jmp |-> 0, at |-> 0]
    /\ MpiIdle
    /\ nb \in {"amr", "stokes", "demo"}
    /\ \E r \in MinRes..MaxRes :
          grid = rectangle(CASE nb = "amr" -> 2 [] nb = "stokes" -> L [] OTHER -> 1, r)
    /\ seed \in 0..MaxSeed
    /\ bc_pc = "space"
    /\ facets = {}
    /\ dofs = {}
    /\ bcs = <<>>
    /\ ds_facets = {}
    /\ vec = <<>>
    /\ petsc = NoRun

\* src/unnamed/part_000, line 120
AmrSpace ==
    /\ nb = "amr" /\ bc_pc = "space"
    /\ grid' = functionspace(grid, 1)
    /\ bc_pc' = "locate"
    /\ UNCHANGED <<nb, seed, facets, dofs, bcs, ds_facets, vec, petsc, amr, mpiv>>

\* lines 123-128
AmrLocate ==
    /\ nb = "amr" /\ bc_pc = "locate"
    /\ facets' = locate_entities_boundary(grid, {p \in Points(grid) : bc_marker(grid, p)})
    /\ dofs' = locate_dofs_topological(grid, facets')
    /\ bc_pc' = "bc"
    /\ UNCHANGED <<nb, grid, seed, bcs, ds_facets, vec, petsc, amr, mpiv>>

\* line 129
AmrBc ==
    /\ nb = "amr" /\ bc_pc = "bc"
    /\ bcs' = <<dirichletbc(Constant(grid, 0), dofs)>>
    /\ bc_pc' = "solve"
    /\ UNCHANGED <<nb, grid, seed, facets, dofs, ds_facets, vec, petsc, amr, mpiv>>

\* lines 130-140
AmrSolve ==
    /\ nb = "amr" /\ bc_pc = "solve"
    /\ vec' = LinearProblem_solve(grid, bcs, seed)
    /\ bc_pc' = "done"
    /\ UNCHANGED <<nb, grid, seed, facets, dofs, bcs, ds_facets, petsc, amr, mpiv>>

\* src/Stokes/channel_flow.ipynb, lines 162-170: the velocity space is P2
StokesSpace ==
    /\ nb = "stokes" /\ bc_pc = "space"
    /\ grid' = functionspace(grid, 2)
    /\ bc_pc' = "bc0"
    /\ UNCHANGED <<nb, seed, facets, dofs, bcs, ds_facets, vec, petsc, amr, mpiv>>

\* lines 188-191
StokesBc0 ==
    /\ nb = "stokes" /\ bc_pc = "bc0"
    /\ facets' = locate_entities_boundary(grid, {p \in Points(grid) : noslip_boundary(grid, p)})
    /\ dofs' = locate_dofs_topological(grid, facets')
    /\ bcs' = <<dirichletbc(Constant(grid, <<0, 0>>), dofs')>>
    /\ bc_pc' = "bc1"
    /\ UNCHANGED <<nb, grid, seed, ds_facets, vec, petsc, amr, mpiv>>

\* lines 194-201: bc1 comes after bc0 in bcs
StokesBc1 ==
    /\ nb = "stokes" /\ bc_pc = "bc1"
    /\ facets' = locate_entities_boundary(grid, {p \in Points(grid) : inflow(grid, p)})
    /\ dofs' = locate_dofs_topological(grid, facets')
    /\ LET inflow_velocity ==
              interpolate(grid, [p \in Points(grid) |-> inflow_velocity_expression(grid, p)])
       IN  bcs' = Append(bcs, dirichletbc(inflow_velocity, dofs'))
    /\ bc_pc' = "assemble"
    /\ UNCHANGED <<nb, grid, seed, ds_facets, vec, petsc, amr, mpiv>>

\* lines 311-314
StokesAssemble ==
    /\ nb = "stokes" /\ bc_pc = "assemble"
    /\ vec' = [p \in DofPoints(grid) |-> PreVector(seed, p)]
    /\ bc_pc' = "set"
    /\ UNCHANGED <<nb, grid, seed, facets, dofs, bcs, ds_facets, petsc, amr, mpiv>>

\* lines 317-318
StokesSet ==
    /\ nb = "stokes" /\ bc_pc = "set"
    /\ vec' = set_bcs(bcs, vec, 1)
    /\ bc_pc' = "done"
    /\ UNCHANGED <<nb, grid, seed, facets, dofs, bcs, ds_facets, petsc, amr, mpiv>>

\* src/unnamed/part_002, line 123
DemoSpace ==
    /\ nb = "demo" /\ bc_pc = "space"
    /\ grid' = functionspace(grid, 1)
    /\ bc_pc' = "locate"
    /\ UNCHANGED <<nb, seed, facets, dofs, bcs, ds_facets, vec, petsc, amr, mpiv>>

\* lines 152-156
DemoFacets ==
    /\ nb = "demo" /\ bc_pc = "locate"
    /\ facets' = locate_entities_boundary(grid, {p \in Points(grid) : demo_marker(grid, p)})
    /\ bc_pc' = "dofs"
    /\ UNCHANGED <<nb, grid, seed, dofs, bcs, ds_facets, vec, petsc, amr, mpiv>>

\* line 176
DemoDofs ==
    /\ nb = "demo" /\ bc_pc = "dofs"
    /\ dofs' = locate_dofs_topological(grid, facets)
    /\ bc_pc' = "bc"
    /\ UNCHANGED <<nb, grid, seed, facets, bcs, ds_facets, vec, petsc, amr, mpiv>>

\* line 196
DemoBc ==
    /\ nb = "demo" /\ bc_pc = "bc"
    /\ bcs' = <<dirichletbc(Constant(grid, 0), dofs)>>
    /\ bc_pc' = "forms"
    /\ UNCHANGED <<nb, grid, seed, facets, dofs, ds_facets, vec, petsc, amr, mpiv>>

\* lines 214-220: ds is the measure of the whole exterior boundary
DemoForms ==
    /\ nb = "demo" /\ bc_pc = "forms"
    /\ ds_facets' = BoundaryFacets(grid)
    /\ bc_pc' = "solve"
    /\ UNCHANGED <<nb, grid, seed, facets, dofs, bcs, vec, petsc, amr, mpiv>>

\* lines 402-404
DemoSolve ==
    /\ nb = "demo" /\ bc_pc = "solve"
    /\ vec' = LinearProblem_solve(grid, bcs, seed)
    /\ bc_pc' = "done"
    /\ UNCHANGED <<nb, grid, seed, facets, dofs, bcs, ds_facets, petsc, amr, mpiv>>

\* ------------------------------------------------------- the Stokes solve
\* the PETSc error codes ksp.solve may raise; 0 stands for success
PetscErrors == {SolverUnavailable, 56, 76}

\* what runs the notebook: plain Python, where exit is the builtin that
\* raises SystemExit, or an IPython kernel, where exit only asks the kernel to
\* shut down and returns
Runtimes == {"python", "ipykernel"}

\* lines 332-340: try: ksp.solve(b, U.x.petsc_vec) except PETSc.Error as e
try_solve(ierr, rt) ==
    IF ierr = 0 THEN [NoRun EXCEPT !.ierr = 0]
    ELSE IF ierr = SolverUnavailable
    THEN [NoRun EXCEPT !.ierr = ierr,
                       !.printed = <<"not available", ierr>>,
                       !.status = IF rt = "python" THEN 0 ELSE -1,
                       !.exit_now = (rt = "ipykernel")]
    ELSE [NoRun EXCEPT !.ierr = ierr, !.raised = ierr, !.status = 1]

\* lines 320-340
KspSolve ==
    /\ nb = "stokes" /\ bc_pc = "done"
    /\ \E ierr \in {0} \cup PetscErrors, rt \in Runtimes :
          /\ petsc' = try_solve(ierr, rt)
          /\ bc_pc' = CASE petsc'.raised # 0 -> "raised"
                        [] petsc'.status = 0 -> "exited"
                        [] OTHER -> "split"
    /\ UNCHANGED <<nb, grid, seed, facets, dofs, bcs, ds_facets, vec, amr, mpiv>>

\* lines 342-345: the cell goes on; a kernel asked to exit stops after it
SplitPlot ==
    /\ nb = "stokes" /\ bc_pc = "split"
    /\ petsc' = [petsc EXCEPT !.split = TRUE, !.plots = @ + 1,
                              !.status = IF petsc.exit_now THEN 0 ELSE @]
    /\ bc_pc' = IF petsc.exit_now THEN "exited" ELSE "plotted"
    /\ UNCHANGED <<nb, grid, seed, facets, dofs, bcs, ds_facets, vec, amr, mpiv>>

NextBC ==
    \/ AmrSpace
    \/ AmrLocate
    \/ AmrBc
    \/ AmrSolve
    \/ StokesSpace
    \/ StokesBc0
    \/ StokesBc1
    \/ StokesAssemble
    \/ StokesSet
    \/ DemoSpace
    \/ DemoFacets
    \/ DemoDofs
    \/ DemoBc
    \/ DemoForms
    \/ DemoSolve
    \/ KspSolve
    \/ SplitPlot

SpecBC == InitBC /\ [][NextBC]_vars

\* --------------------------------------------------------- distributed run
\* The loop of lines 520-563 run by NumRanks processes on a mesh distributed
\* over MPI.COMM_WORLD.  Creating a function space, refining and solving are
\* collective: they complete only when every process takes part.  Everything
\* else is local to a process.
Ranks == 0..(NumRanks - 1)

\* what np.sum gives over the indicators of the cells a process owns
LocalTotals == {2 * Square(j) : j \in 0..(MaxJump + 1)}

\* lines 520-522
InitMPI ==
    /\ InitAmr
    /\ uh = [gen |-> 0, jmp |-> 0, at |-> 0]
    /\ BcIdle
    /\ rank_pc = [r \in Ranks |-> "while"]
    /\ rank_res = [r \in Ranks |-> InitResidual]
    /\ rank_iter = [r \in Ranks |-> 0]

\* line 524: each process tests its own tot_residual
RankTest(r) ==
    /\ rank_pc[r] = "while"
    /\ Continues(rank_res[r]) => rank_iter[r] < MaxRounds
    /\ rank_pc' = [rank_pc EXCEPT ![r] = IF Continues(rank_res[r]) THEN "space" ELSE "done"]
    /\ UNCHANGED <<rank_res, rank_iter, amr, bcv>>

\* line 525: fem.functionspace, collective
CollectiveSpace ==
    /\ \A r \in Ranks : rank_pc[r] = "space"
    /\ rank_pc' = [r \in Ranks |-> "estimate"]
    /\ UNCHANGED <<rank_res, rank_iter, amr, bcv>>

\* lines 527-541: size_local cells, assemble_vector and np.sum without a
\* reduction over the processes
RankEstimate(r) ==
    /\ rank_pc[r] = "estimate"
    /\ \E t \in LocalTotals : rank_res' = [rank_res EXCEPT ![r] = t]
    /\ rank_pc' = [rank_pc EXCEPT ![r] = "refine"]
    /\ UNCHANGED <<rank_iter, amr, bcv>>

\* lines 543-553: mesh.refine, collective
CollectiveRefine ==
    /\ \A r \in Ranks : rank_pc[r] = "refine"
    /\ rank_pc' = [r \in Ranks |-> "solve"]
    /\ UNCHANGED <<rank_res, rank_iter, amr, bcv>>

\* lines 554-558: the solve and the write, collective
CollectiveSolve ==
    /\ \A r \in Ranks : rank_pc[r] = "solve"
    /\ rank_pc' = [r \in Ranks |-> "while"]
    /\ rank_iter' = [r \in Ranks |-> rank_iter[r] + 1]
    /\ UNCHANGED <<rank_res, amr, bcv>>

NextMPI ==
    \/ \E r \in Ranks : RankTest(r)
    \/ CollectiveSpace
    \/ \E r \in Ranks : RankEstimate(r)
    \/ CollectiveRefine
    \/ CollectiveSolve

SpecMPI == InitMPI /\ [][NextMPI]_vars

\* ----------------------------------------------------------------- claims
Count(s, x) == Cardinality({i \in DOMAIN s : s[i] = x})

\* the states in which the indicator has just been evaluated and the cells marked
Estimated == pc \in {"refine", "loop_refine"}

\* C1: the loop reaches its terminal state only with the solution it leaves
\* behind measured: at exit the final uh on the final msh is the one whose
\* total residual was computed and found <= 5e-2.
C1_FinalSolutionMeasured ==
    pc = "done" =>
        /\ residual.uh = uh
        /\ residual.n = msh.gen
        /\ tot_residual <= Threshold

\* C2: the loop's only exit is the residual test: from the test it goes on
\* exactly when the last total residual is > 5e-2 and stops exactly when it is
\* <= 5e-2 (equality stops); nothing else ends the loop, so it is never left
\* with a residual above the threshold.
C2_OnlyExitIsResidualTest ==
    [][/\ (pc = "while" /\ pc' # pc) =>
              /\ (pc' = "loop_estimate") <=> (tot_residual > Threshold)
              /\ (pc' = "done") <=> (tot_residual <= Threshold)
       /\ (pc' = "done" /\ pc # "done") =>
              (pc = "while" /\ tot_residual <= Threshold /\ tot_residual' = tot_residual)
       /\ (pc \in {"loop_estimate", "loop_refine", "loop_solve"}) => pc' # "done"]_vars

C2_Witness == pc = "done" /\ tot_residual = Threshold /\ iteration >= 2

\* C4: in every marking step the number of marked cells is
\* ceil(0.05 * cell_count) of the mesh being estimated (128 cells give 7,
\* 16 cells give 1).
C4_MarkedCountIsCeil ==
    /\ Estimated =>
          LET k == Len(marked_cells)
              n == msh.num_cells
          IN  /\ k = num_cells_to_refine
              /\ FracDen * k >= FracNum * n
              /\ FracDen * (k - 1) < FracNum * n
    /\ pc = "space" =>
          \A n \in 0 .. (4 * MaxCells) :
              /\ FracDen * CeilFraction(n) >= FracNum * n
              /\ FracDen * (CeilFraction(n) - 1) < FracNum * n
    /\ CeilFraction(128) = 7
    /\ CeilFraction(16) = 1

C4_Witness ==
    /\ pc = "loop_refine"
    /\ Len(marked_cells) = 2
    /\ (FracNum * msh.num_cells) % FracDen # 0

\* C5: cell_ord_by_res lists every cell index once, in descending order of
\* indicator value, and cells with equal values in ascending index order.
C5_RankingDescendingStable ==
    Estimated =>
        /\ Len(cell_ord_by_res) = msh.num_cells
        /\ SeqRange(cell_ord_by_res) = Cells(msh)
        /\ \A i, j \in DOMAIN cell_ord_by_res :
              i < j =>
                  LET a == cell_ord_by_res[i]
                      b == cell_ord_by_res[j]
                  IN  \/ array_cell_res[a] > array_cell_res[b]
                      \/ array_cell_res[a] = array_cell_res[b] /\ a < b

C5_Witness ==
    /\ pc = "loop_refine"
    /\ \E i \in 1 .. (Len(cell_ord_by_res) - 1) :
          LET a == cell_ord_by_res[i]
              b == cell_ord_by_res[i + 1]
          IN  array_cell_res[a] = array_cell_res[b] /\ array_cell_res[a] > 0
    /\ \E i \in 1 .. (Len(cell_ord_by_res) - 1) :
          cell_ord_by_res[i] > cell_ord_by_res[i + 1]

\* C6: the marked cells are the top cells by indicator value: every marked
\* cell's indicator is >= the indicator of every unmarked cell of the mesh.
C6_MarkedAreTop ==
    Estimated =>
        \A m \in SeqRange(marked_cells) :
            \A u \in Cells(msh) \ SeqRange(marked_cells) :
                array_cell_res[m] >= array_cell_res[u]

C6_Witness ==
    /\ pc = "loop_refine"
    /\ Len(marked_cells) = 2
    /\ \E u \in Cells(msh) \ SeqRange(marked_cells) : array_cell_res[u] > 0
    /\ \E u \in Cells(msh) \ SeqRange(marked_cells) :
          \A m \in SeqRange(marked_cells) : array_cell_res[m] > array_cell_res[u]

\* C7: the number of mesh cells never decreases, and every refinement step
\* that completes (the stand-alone one and each loop iteration) strictly
\* increases it.
C7_CellCountGrows ==
    [][/\ msh'.num_cells >= msh.num_cells
       /\ (pc \in {"refine", "loop_refine"} /\ pc' \notin {pc, "aborted"}) =>
              (msh'.gen = msh.gen + 1 /\ msh'.num_cells > msh.num_cells)
       /\ (msh' # msh) => msh'.num_cells > msh.num_cells]_vars

C7_Witness == pc = "loop_solve" /\ msh.gen >= 3 /\ msh.num_cells > num_cells

\* C8: the edge list handed to mesh.refine holds, for each marked cell in rank
\* order, each of its three edges, one entry per (cell, edge) pair and without
\* deduplication: its length is 3 times the number of marked cells and an edge
\* shared by two marked cells appears twice.
C8_EdgesPerCellNoDedup ==
    pc \in {"resolve", "loop_solve"} =>
        /\ Len(edges) = 3 * Len(marked_cells)
        /\ \A i \in DOMAIN marked_cells :
              \A j \in 1 .. 3 :
                  edges[3 * (i - 1) + j] = Links(msh, marked_cells[i])[j]
        /\ \A e \in SeqRange(edges) :
              Count(edges, e) =
                  Cardinality({i \in DOMAIN marked_cells :
                                  e \in SeqRange(Links(msh, marked_cells[i]))})

C8_Witness ==
    /\ pc = "loop_solve"
    /\ Len(marked_cells) = 2
    /\ \E e \in SeqRange(edges) : Count(edges, e) = 2

\* C9: each estimate computes the indicator vector afresh from the current
\* solution, with exactly one entry >= 0 per cell of the current mesh, and the
\* total residual is the sum of the entries, hence >= 0.
C9_IndicatorsNonNegative ==
    Estimated =>
        /\ DOMAIN array_cell_res = Cells(msh)
        /\ residual.uh = uh
        /\ \A c \in Cells(msh) : array_cell_res[c] >= 0
        /\ tot_residual = np_sum(array_cell_res)
        /\ tot_residual >= 0

C9_Witness ==
    /\ pc = "loop_refine"
    /\ uh.jmp < 0
    /\ tot_residual > 0
    /\ \E c \in Cells(msh) : array_cell_res[c] = 0

\* C10: whenever the indicator is evaluated, uh, f, the piecewise-constant
\* space and the cell areas belong to the current mesh generation; after every
\* mesh.refine the source is re-defined and the problem re-solved on the new
\* mesh before the next estimate.
C10_NothingStale ==
    /\ (Estimated \/ pc = "estimate") =>
          /\ residual.uh = uh
          /\ residual.f = f
          /\ residual.uh.gen = msh.gen
          /\ residual.f.gen = msh.gen
          /\ residual.w.gen = msh.gen
          /\ residual.area.gen = msh.gen
          /\ residual.n = msh.gen
    /\ (pc \in {"loop_init", "while", "loop_estimate", "done"}) =>
          (uh.gen = msh.gen /\ f.gen = msh.gen)
    /\ (pc \in {"resolve", "loop_solve"}) => f.gen = msh.gen

C10_Witness == pc = "loop_refine" /\ msh.gen >= 2 /\ residual.uh.gen = msh.gen

\* C12: exactly one snapshot is written per loop iteration, all through the
\* one writer opened before the loop on the one output file, and the snapshot
\* of iteration k is tagged with time k (times 1, 2, ..., N) and holds the
\* solution of that iteration.
C12_OneSnapshotPerIteration ==
    /\ Len(written) = iteration
    /\ writer.opened <= 1
    /\ (pc \in {"while", "loop_estimate", "loop_refine", "loop_solve", "done"}) =>
          (writer.opened = 1 /\ writer.path = "out_poisson/poisson")
    /\ \A k \in DOMAIN written :
          /\ written[k].time = k
          /\ written[k].file = writer.path
          /\ written[k].writer = 1
          /\ written[k].gen = k + 1
    /\ (pc \in {"while", "done"} /\ iteration >= 1) => written[iteration].gen = uh.gen

C12_Witness == pc = "done" /\ Len(written) >= 2 /\ written[2].time = 2

\* C13: exactly one log line is printed per loop iteration; line k carries the
\* iteration number k and the total residual computed in that iteration, and
\* printed lines are never changed.
C13_OneLogLinePerIteration ==
    /\ [](/\ Len(stdout) = iteration
          /\ \A k \in DOMAIN stdout : stdout[k][1] = k
          /\ (pc \in {"while", "done"} /\ iteration >= 1) =>
                (/\ stdout[iteration][2] = tot_residual
                 /\ tot_residual = np_sum(array_cell_res)
                 /\ residual.n = iteration))
    /\ [][stdout' # stdout =>
              (/\ pc = "loop_solve"
               /\ Len(stdout') = Len(stdout) + 1
               /\ SubSeq(stdout', 1, Len(stdout)) = stdout)]_vars

C13_Witness ==
    pc = "done" /\ Len(stdout) >= 2 /\ stdout[1][2] # stdout[2][2]

\* C15: no failure is caught: a failure of assembly, refinement or solve in
\* iteration k ends the run at once, so nothing runs after it and iteration k
\* emits neither its log line nor its snapshot.
C15_FailureAborts ==
    /\ [](raised # "None" => pc = "aborted")
    /\ [][/\ pc # "aborted"
          /\ pc' = "aborted" =>
                (/\ raised' \in {"AssemblyError", "RefinementError", "SolveError"}
                 /\ stdout' = stdout
                 /\ written' = written
                 /\ iteration' = iteration
                 /\ Len(stdout) = iteration
                 /\ Len(written) = iteration)]_vars

C15_Witness ==
    pc = "aborted" /\ raised = "SolveError" /\ iteration >= 1 /\ Len(stdout) = iteration

\* the open outflow side of the channel: x1 = L, 0 < x2 < 1
OpenSide(g, p) == p[1] = Right(g) /\ 0 < p[2] /\ p[2] < Top(g)

\* C11: the boundary marker of the adaptive notebook selects exactly the
\* points on the four sides x=0, x=2, y=0, y=1 of its rectangle, the dofs
\* constrained are exactly the boundary dofs, and after a solve (every solve
\* of the notebook is this one function with this one marker) the solution is
\* exactly 0 at every boundary dof.
C11_BoundaryExactlyZero ==
    nb = "amr" =>
        /\ \A p \in Points(grid) : bc_marker(grid, p) <=> OnBoundary(grid, p)
        /\ bc_pc \in {"bc", "solve", "done"} =>
              dofs = {p \in DofPoints(grid) : OnBoundary(grid, p)}
        /\ bc_pc = "done" =>
              \A p \in DofPoints(grid) : OnBoundary(grid, p) => vec[p] = 0

C11_Witness ==
    /\ nb = "amr" /\ bc_pc = "done" /\ grid.res = MaxRes
    /\ vec[<<Right(grid), Top(grid)>>] = 0
    /\ \E p \in DofPoints(grid) : ~OnBoundary(grid, p) /\ vec[p] # 0

\* C17: in the Stokes channel, once bcs = [bc0, bc1] have been set in order on
\* the right-hand side, every velocity dof on the walls x2 = 0 and x2 = 1,
\* the two corners at x1 = 0 included, holds (0, 0).
C17_WallDofsZero ==
    (nb = "stokes" /\ bc_pc = "done") =>
        \A p \in DofPoints(grid) : p[2] \in {0, Top(grid)} => vec[p] = <<0, 0>>

\* C18: in the Stokes channel the velocity prescribed at every dof of the
\* inflow side x1 = 0 is (x2 (1 - x2), 0); in units of 1 / Den^2 that is
\* (j (Den - j), 0) at the point of index j.
C18_InflowIsParabolic ==
    (nb = "stokes" /\ bc_pc \in {"assemble", "set", "done"}) =>
        /\ bcs[2].dofs = {p \in DofPoints(grid) : p[1] = 0}
        /\ \A p \in bcs[2].dofs :
              bcs[2].value[p] = <<p[2] * (Den(grid) - p[2]), 0>>

C20_DirichletOnlyOnEnds ==
    (nb = "demo" /\ bc_pc = "done") =>
        /\ grid.w = 2
        /\ dofs = {p \in DofPoints(grid) : p[1] \in {0, Right(grid)}}
        /\ \A fc \in BoundaryFacets(grid) :
              (fc[1][2] = fc[2][2]) => (fc \in ds_facets /\ fc \notin facets)

\* C14: on a distributed mesh the termination test uses a globally reduced
\* total residual: the processes that have finished the same iteration hold
\* the same total, they take the same continue/stop decision, and no process
\* has left the loop while another one is inside it, waiting in a collective
\* step.
C14_SameDecisionEverywhere ==
    \A r1, r2 \in Ranks :
        /\ (rank_pc[r1] = "while" /\ rank_pc[r2] = "while") => rank_res[r1] = rank_res[r2]
        /\ rank_pc[r1] = "done" => rank_pc[r2] \in {"while", "done"}

\* the states right after a refinement: num_cells still holds the cell count
\* of the mesh that was refined, edges the list handed to mesh.refine
JustRefined == pc \in {"resolve", "loop_solve"}

\* the cells that have edge e: two for an interior edge, one on the boundary
Incident(n, e) == IF IsInteriorEdge(n, e) THEN 2 ELSE 1

C22_StepsInOrder ==
    [][/\ pc = "while" => pc' \in {"loop_estimate", "done"}
       /\ pc = "loop_estimate" =>
             /\ pc' \in {"loop_refine", "aborted"}
             /\ pc' = "loop_refine" =>
                   /\ residual'.uh = uh /\ residual'.f = f /\ residual'.n = msh.gen
                   /\ DOMAIN array_cell_res' = Cells(msh)
                   /\ tot_residual' = np_sum(array_cell_res')
                   /\ marked_cells' = SliceHead(RankCells(array_cell_res'), CeilFraction(msh.num_cells))
                   /\ msh' = msh /\ uh' = uh /\ iteration' = iteration
       /\ pc = "loop_refine" =>
             /\ pc' \in {"loop_solve", "aborted"}
             /\ pc' = "loop_solve" =>
                   /\ edges' = CollectEdges(msh, marked_cells)
                   /\ msh'.gen = msh.gen + 1
                   /\ msh'.num_cells > msh.num_cells
                   /\ f'.gen = msh'.gen
                   /\ uh' = uh /\ iteration' = iteration /\ tot_residual' = tot_residual
       /\ pc = "loop_solve" =>
             /\ pc' \in {"while", "aborted"}
             /\ pc' = "while" =>
                   /\ msh' = msh /\ f' = f
                   /\ uh'.gen = msh.gen
                   /\ iteration' = iteration + 1
                   /\ stdout' = Append(stdout, <<iteration + 1, tot_residual>>)
                   /\ Len(written') = Len(written) + 1
                   /\ written'[Len(written')].gen = uh'.gen
                   /\ written'[Len(written')].time = iteration + 1]_vars

C22_Witness == pc = "while" /\ iteration >= 2 /\ uh.gen = iteration + 1 /\ f.gen = uh.gen

FirstPass == pc = "loop_estimate" /\ iteration = 0

\* C24 as stated: the first pass of the loop works on the initial mesh, an
\* 8x8 rectangle mesh of 128 triangles that has not been refined.
C24_FirstPassOnInitial8x8 ==
    FirstPass => (msh.gen = 0 /\ msh.num_cells = 2 * 8 * 8)

\* C24 amended: the initial mesh is the 4x2 rectangle mesh of 16 triangles,
\* and the first pass of the loop works on the mesh the stand-alone step made
\* from it by one refinement, with the solution recomputed on that mesh.
C24_FirstPassOnRefined4x2 ==
    /\ pc = "space" => (msh.gen = 0 /\ msh.num_cells = 16)
    /\ FirstPass =>
          /\ msh.gen = 1
          /\ msh.num_cells > create_rectangle.num_cells
          /\ create_rectangle.num_cells = 16
          /\ uh.gen = 1 /\ f.gen = 1

C24_Witness == FirstPass /\ msh.gen = 1 /\ msh.num_cells >= 20

\* C25: for every mesh with at least one cell the number k of cells to mark
\* satisfies 1 <= k <= cell count, the marked cells are k pairwise distinct
\* valid cell indices, and the edge list handed to mesh.refine is not empty.
C25_MarkedDistinctNonEmpty ==
    /\ pc = "space" => \A n \in 1..(2 * MaxCells) :
                          1 <= CeilFraction(n) /\ CeilFraction(n) <= n
    /\ Estimated =>
          /\ msh.num_cells >= 1
          /\ 1 <= num_cells_to_refine /\ num_cells_to_refine <= msh.num_cells
          /\ Len(marked_cells) = num_cells_to_refine
          /\ SeqRange(marked_cells) \subseteq Cells(msh)
          /\ Cardinality(SeqRange(marked_cells)) = Len(marked_cells)
    /\ JustRefined =>
          /\ edges # <<>>
          /\ Len(edges) = 3 * num_cells_to_refine
          /\ \A i \in DOMAIN edges : edges[i] \in 0..(2 * num_cells)

C25_Witness ==
    /\ pc = "loop_solve" /\ Len(marked_cells) = 2
    /\ marked_cells[1] # marked_cells[2] /\ Len(edges) = 6

\* C26: the loop body runs at least once whatever the residual of the current
\* solution is: the loop is entered with tot_residual = 1, not with the total
\* of the stand-alone step, so its first test always continues and the loop
\* never ends before one full pass.
C26_BodyRunsAtLeastOnce ==
    /\ (pc = "while" /\ iteration = 0) =>
          (tot_residual = InitResidual /\ Continues(tot_residual))
    /\ pc = "done" => (iteration >= 1 /\ msh.gen >= 2 /\ Len(written) >= 1)

\* the first pass is under way although the solution it started from already
\* satisfies the threshold, and it ends with the loop done after that one pass
C26_Witness ==
    /\ pc = "loop_refine" /\ iteration = 0
    /\ tot_residual <= Threshold
    /\ residual.uh = uh

\* C27: the residual printed in pass k is the total of the solution that
\* existed at the start of pass k, measured on the mesh before that pass's
\* refinement, while the snapshot written with time k holds the solution
\* computed in pass k on the refined mesh; the solution of snapshot k is
\* measured only by the estimate of pass k + 1, and the solution of the last
\* snapshot is never measured.
C27_LoggedResidualIsOfOldSolution ==
    /\ (pc \in {"while", "done"} /\ iteration >= 1) =>
          /\ stdout[iteration] = <<iteration, np_sum(assemble_vector(residual))>>
          /\ residual.uh.gen = iteration /\ residual.n = iteration
          /\ written[iteration].time = iteration
          /\ written[iteration].gen = iteration + 1
          /\ uh.gen = written[iteration].gen
          /\ residual.uh # uh
    /\ (pc = "loop_refine" /\ iteration >= 1) =>
          /\ residual.uh = uh
          /\ residual.uh.gen = written[iteration].gen
          /\ Len(stdout) = iteration
    /\ pc = "done" => residual.uh.gen < written[Len(written)].gen

C27_Witness ==
    /\ pc = "done" /\ iteration >= 2
    /\ stdout[iteration][2] <= Threshold
    /\ written[iteration].gen = residual.uh.gen + 1

\* C28: the iteration counter starts at 0, only the end of a pass changes it,
\* by exactly 1 and after the solve of that pass, and at every loop head the
\* mesh is the initial mesh refined exactly iteration + 1 times: once by the
\* stand-alone step and once by each completed pass.
C28_CounterCountsPasses ==
    /\ [](/\ pc \in {"space", "area", "form", "estimate", "refine", "resolve", "loop_init"}
                => iteration = 0
          /\ pc \in {"while", "done", "loop_estimate", "loop_refine"}
                => (msh.gen = iteration + 1 /\ uh.gen = msh.gen)
          /\ pc = "loop_solve" => (msh.gen = iteration + 2 /\ uh.gen = iteration + 1))
    /\ [][iteration' # iteration =>
             (/\ pc = "loop_solve" /\ pc' = "while"
              /\ iteration' = iteration + 1
              /\ uh'.gen = msh.gen /\ uh' # uh)]_vars

C28_Witness == pc = "while" /\ iteration = 2 /\ msh.gen = 3

\* C29: in the Stokes notebook a PETSc error 92 from ksp.solve is caught: the
\* message is printed and the run ends with status 0, the solution neither
\* split nor plotted; an error with any other code is re-raised unchanged; on
\* success the solution is split and plotted exactly once.
C29_SolverFailureHandled ==
    (nb = "stokes" /\ petsc.ierr # -1) =>
        /\ petsc.ierr = SolverUnavailable =>
              /\ petsc.printed = <<"not available", SolverUnavailable>>
              /\ bc_pc = "exited" /\ petsc.status = 0 /\ petsc.raised = 0
              /\ ~petsc.split /\ petsc.plots = 0
        /\ petsc.ierr \in PetscErrors \ {SolverUnavailable} =>
              /\ bc_pc = "raised" /\ petsc.raised = petsc.ierr
              /\ petsc.printed = <<>> /\ ~petsc.split /\ petsc.plots = 0
        /\ petsc.ierr = 0 =>
              /\ petsc.raised = 0 /\ petsc.printed = <<>>
              /\ bc_pc = "plotted" => (petsc.split /\ petsc.plots = 1)
              /\ bc_pc \in {"split", "plotted"}

====
